---- MODULE Spec2Model ----
(***************************************************************************)
(* medit configuration loading: discovery of the config file, JSON         *)
(* loading, schema validation and the process-wide result cache            *)
(* (src/microedit/config.py, src/microedit/config_validators.py).          *)
(*                                                                         *)
(* Conventions.  An optional value (Python None or a value) is a sequence  *)
(* of length 0 or 1.  A Python str value and every rendered message is a   *)
(* sequence of text fragments.  Every Python value read from JSON is a     *)
(* record [k, s, m]: its kind, its text (str, number), its items (dict).   *)
(***************************************************************************)
EXTENDS Naturals, Sequences, FiniteSets, TLC

VARIABLES environ, cwd, fs, writable, CACHED_RESULT, last, envOps, vdata, vpath

vars == <<environ, cwd, fs, writable, CACHED_RESULT, last, envOps, vdata, vpath>>

\* ------------------------------------------------------------------ bounds
\* Number of changes the surroundings (files, environment, cwd) may make.
MaxEnvOps == 2

\* ------------------------------------------------------- optional values
None == <<>>
Some(x) == <<x>>
Get(o) == o[1]

\* ------------------------------------------------------- Python values
PyNone == [k |-> "null", s |-> <<>>, m |-> <<>>]
PyTrue == [k |-> "bool", s |-> <<"true">>, m |-> <<>>]
PyInt(lit) == [k |-> "int", s |-> lit, m |-> <<>>]
PyStr(chars) == [k |-> "str", s |-> chars, m |-> <<>>]
PyList(items) == [k |-> "list", s |-> <<>>, m |-> items]
PyDict(items) == [k |-> "dict", s |-> <<>>, m |-> items]

\* isinstance(value, Mapping) / isinstance(value, str)
IsMapping(v) == v.k = "dict"
IsStr(v) == v.k = "str"

\* Code-point order of the dict keys that occur; sorted(keys) follows it.
KeyOrder == <<"Beta", "alpha", "commands", "extra", "separator">>

\* the keys in reverse order
sorted_reversed(keys) == LET up == SelectSeq(KeyOrder, LAMBDA key : key \in keys) IN [i \in 1..Len(up) |-> up[Len(up) + 1 - i]]

sorted(keys) == SelectSeq(KeyOrder, LAMBDA key : key \in keys)

RECURSIVE join(_, _)
\* sep.join(items), as text fragments
join(sep, items) == IF Len(items) = 0 THEN <<>> ELSE IF Len(items) = 1 THEN <<items[1]>> ELSE <<items[1], sep>> \o join(sep, Tail(items))

\* ------------------------------------------------------- JSON text
\* A file's text is a sequence of lexical tokens [t, v].
Punct(c) == [t |-> "punct", v |-> <<c>>]
TStr(chars) == [t |-> "str", v |-> chars]
TKey(name) == [t |-> "str", v |-> <<name>>]
TNum(lit) == [t |-> "num", v |-> lit]
TLit(word) == [t |-> "lit", v |-> <<word>>]
TWs(chars) == [t |-> "ws", v |-> chars]

IsPunct(tok, c) == tok.t = "punct" /\ tok.v = <<c>>

ParseFail == [ok |-> FALSE, val |-> PyNone, next |-> 0]

RECURSIVE ParseValue(_, _), ParseMembers(_, _, _), ParseElements(_, _, _)
\* json decoder: the value starting at token i, and the index after it
ParseValue(toks, i) ==
  IF i > Len(toks) THEN ParseFail
  ELSE LET tok == toks[i] IN
    CASE tok.t = "str" -> [ok |-> TRUE, val |-> PyStr(tok.v), next |-> i + 1]
      [] tok.t = "num" -> [ok |-> TRUE, val |-> PyInt(tok.v), next |-> i + 1]
      [] tok.t = "lit" /\ tok.v = <<"null">> -> [ok |-> TRUE, val |-> PyNone, next |-> i + 1]
      [] tok.t = "lit" /\ tok.v = <<"true">> -> [ok |-> TRUE, val |-> PyTrue, next |-> i + 1]
      [] IsPunct(tok, "{") ->
           IF i + 1 <= Len(toks) /\ IsPunct(toks[i + 1], "}")
           THEN [ok |-> TRUE, val |-> PyDict(<<>>), next |-> i + 2]
           ELSE ParseMembers(toks, i + 1, <<>>)
      [] IsPunct(tok, "[") ->
           IF i + 1 <= Len(toks) /\ IsPunct(toks[i + 1], "]")
           THEN [ok |-> TRUE, val |-> PyList(<<>>), next |-> i + 2]
           ELSE ParseElements(toks, i + 1, <<>>)
      [] OTHER -> ParseFail

\* "key": value pairs up to the closing brace; a repeated key keeps the last value
ParseMembers(toks, i, acc) ==
  IF i + 1 > Len(toks) \/ toks[i].t # "str" \/ Len(toks[i].v) # 1 \/ ~IsPunct(toks[i + 1], ":") THEN ParseFail
  ELSE LET key == toks[i].v[1]
           item == ParseValue(toks, i + 2)
           acc2 == (key :> item.val) @@ acc
       IN IF ~item.ok \/ item.next > Len(toks) THEN ParseFail
          ELSE IF IsPunct(toks[item.next], "}") THEN [ok |-> TRUE, val |-> PyDict(acc2), next |-> item.next + 1]
          ELSE IF IsPunct(toks[item.next], ",") THEN ParseMembers(toks, item.next + 1, acc2)
          ELSE ParseFail

\* array elements up to the closing bracket
ParseElements(toks, i, acc) ==
  LET item == ParseValue(toks, i)
      acc2 == Append(acc, item.val)
  IN IF ~item.ok \/ item.next > Len(toks) THEN ParseFail
     ELSE IF IsPunct(toks[item.next], "]") THEN [ok |-> TRUE, val |-> PyList(acc2), next |-> item.next + 1]
     ELSE IF IsPunct(toks[item.next], ",") THEN ParseElements(toks, item.next + 1, acc2)
     ELSE ParseFail

\* json.load(f): one value, surrounded by whitespace only; else JSONDecodeError
json_load(text) ==
  LET toks == SelectSeq(text, LAMBDA tok : tok.t # "ws")
      got == ParseValue(toks, 1)
  IN IF got.ok /\ got.next = Len(toks) + 1 THEN [ok |-> TRUE, val |-> got.val] ELSE [ok |-> FALSE, val |-> PyNone]

RECURSIVE Indent(_)
Indent(depth) == IF depth = 0 THEN <<>> ELSE <<" ", " ">> \o Indent(depth - 1)

RECURSIVE dumps(_, _), DumpItems(_, _, _)
\* json.dumps(value, indent=2, sort_keys=True) at nesting depth `depth`
dumps(value, depth) ==
  CASE value.k = "str" -> <<TStr(value.s)>>
    [] value.k = "int" -> <<TNum(value.s)>>
    [] value.k = "null" -> <<TLit("null")>>
    [] value.k = "bool" -> <<TLit("true")>>
    [] value.k = "dict" /\ DOMAIN value.m = {} -> <<Punct("{"), Punct("}")>>
    [] value.k = "dict" -> <<Punct("{")>> \o DumpItems(value.m, sorted(DOMAIN value.m), depth + 1) \o <<TWs(<<"\n">> \o Indent(depth)), Punct("}")>>
    [] OTHER -> <<Punct("["), Punct("]")>>

DumpItems(items, keys, depth) ==
  IF Len(keys) = 0 THEN <<>>
  ELSE <<TWs(<<"\n">> \o Indent(depth)), TKey(keys[1]), Punct(":"), TWs(<<" ">>)>> \o dumps(items[keys[1]], depth) \o (IF Len(keys) > 1 THEN <<Punct(",")>> ELSE <<>>) \o DumpItems(items, Tail(keys), depth)

\* ------------------------------------------------------- exceptions, results
\* ConfigError(message, path=path); path is optional
ConfigError(message, path) == [type |-> "ConfigError", message |-> message, path |-> path]
\* json.JSONDecodeError, a ValueError that is not a ConfigError
JSONDecodeError == [type |-> "JSONDecodeError", message |-> <<"Expecting value">>, path |-> None]
\* OSError raised by the file system
OSError(what) == [type |-> "OSError", message |-> <<what>>, path |-> None]

\* The outcome of a call: an exception raised, or a value returned.
Raise(exc) == [raised |-> Some(exc), value |-> None]
Return(v) == [raised |-> None, value |-> Some(v)]

ConfigDiagnostics(path, warnings, error) == [path |-> path, warnings |-> warnings, error |-> error]
ConfigResult(config, diagnostics) == [config |-> config, diagnostics |-> diagnostics]

\* ------------------------------------------------------- validators
WhiteSpace == {" ", "\n", "\r", "\t"}

RECURSIVE lstrip(_)
lstrip(chars) == IF Len(chars) > 0 /\ chars[1] \in WhiteSpace THEN lstrip(Tail(chars)) ELSE chars

RECURSIVE rstrip(_)
rstrip(chars) == IF Len(chars) > 0 /\ chars[Len(chars)] \in WhiteSpace THEN rstrip(SubSeq(chars, 1, Len(chars) - 1)) ELSE chars

\* str.strip()
strip(chars) == rstrip(lstrip(chars))

\* the ValueError a validator raises, or the value it returns
ValueError(message) == [ok |-> FALSE, value |-> PyNone, message |-> message]
Valid(value) == [ok |-> TRUE, value |-> value, message |-> <<>>]

\* validate_string converting the value to a string instead of rejecting it
validate_string_coercing(v, value0, default, path, field_name) ==
  LET value1 == IF value0 = PyNone THEN default ELSE value0
      display == IF v.label = None \/ v.label = <<"">> THEN field_name ELSE v.label
      chars == IF value1.k \in {"str", "int", "bool"} THEN value1.s ELSE <<"{}">>
  IN IF ~v.allow_empty /\ chars = <<>> THEN ValueError(display \o <<" must not be empty.">>)
     ELSE IF v.forbid_newlines /\ (\E i \in DOMAIN chars : chars[i] \in {"\n", "\r"}) THEN ValueError(display \o <<" must not contain newlines.">>)
     ELSE Valid(PyStr(chars))

\* validate_string trimming the value whatever `strip` says
validate_string_stripping(v, value0, default, path, field_name) ==
  LET value1 == IF value0 = PyNone THEN default ELSE value0
      display == IF v.label = None \/ v.label = <<"">> THEN field_name ELSE v.label
      chars == strip(value1.s)
  IN IF ~IsStr(value1) THEN ValueError(display \o <<" must be a string.">>)
     ELSE IF ~v.allow_empty /\ chars = <<>> THEN ValueError(display \o <<" must not be empty.">>)
     ELSE IF v.forbid_newlines /\ (\E i \in DOMAIN chars : chars[i] \in {"\n", "\r"}) THEN ValueError(display \o <<" must not contain newlines.">>)
     ELSE Valid(PyStr(chars))

\* validate_string(...)._validator(value, default, path=path, field_name=field_name)
validate_string(v, value0, default, path, field_name) ==
  LET value1 == IF value0 = PyNone THEN default ELSE value0
      display == IF v.label = None \/ v.label = <<"">> THEN field_name ELSE v.label
      chars == IF v.strip THEN strip(value1.s) ELSE value1.s
  IN IF ~IsStr(value1) THEN ValueError(display \o <<" must be a string.">>)
     ELSE IF ~v.allow_empty /\ chars = <<>> THEN ValueError(display \o <<" must not be empty.">>)
     ELSE IF v.min_length # None /\ Len(chars) < Get(v.min_length) THEN ValueError(display \o <<" must be at least N characters.">>)
     ELSE IF v.max_length # None /\ Len(chars) > Get(v.max_length) THEN ValueError(display \o <<" must be at most N characters.">>)
     ELSE IF v.forbid_newlines /\ (\E i \in DOMAIN chars : chars[i] \in {"\n", "\r"}) THEN ValueError(display \o <<" must not contain newlines.">>)
     ELSE Valid(PyStr(chars))

\* ------------------------------------------------------- schema
\* CommandsConfig.separator: metadata validator
SeparatorValidator == [label |-> Some("Command separator"), allow_empty |-> FALSE, forbid_newlines |-> TRUE, strip |-> FALSE, min_length |-> None, max_length |-> None]

\* fields(CommandsConfig)
CommandsConfig == <<[name |-> "separator", default |-> PyStr(<<",">>), validators |-> <<SeparatorValidator>>]>>

\* fields(MeditConfig): the sections and their options, in declaration order
Schema == <<[name |-> "commands", options |-> CommandsConfig]>>

\* MeditConfig(): every option at its default
MeditConfig == [name \in {Schema[i].name : i \in DOMAIN Schema} |-> LET section == CHOOSE sec \in {Schema[i] : i \in DOMAIN Schema} : sec.name = name IN [opt \in {section.options[j].name : j \in DOMAIN section.options} |-> (CHOOSE o \in {section.options[j] : j \in DOMAIN section.options} : o.name = opt).default]]

\* asdict(config)
asdict(config) == PyDict([name \in DOMAIN config |-> PyDict(config[name])])

\* default_config_data()
default_config_data == asdict(MeditConfig)

\* default_config_text(): the dump and a trailing newline
default_config_text == dumps(default_config_data, 0) \o <<TWs(<<"\n">>)>>

\* ------------------------------------------------------- validate_config
\* dict.get(key, default)
DictGet(items, key, default) == IF key \in DOMAIN items THEN items[key] ELSE default

RECURSIVE ApplyValidators(_, _, _, _, _, _)
\* the loop over field_validators, threading the value
ApplyValidators(validators, j, value, default, path, field_name) ==
  IF j > Len(validators) THEN Valid(value)
  ELSE LET got == validate_string(validators[j], value, default, path, field_name)
       IN IF got.ok THEN ApplyValidators(validators, j + 1, got.value, default, path, field_name) ELSE got

RECURSIVE ValidateOptions(_, _, _, _, _, _)
\* the loop over the options of one section; kwargs are the values built so far
ValidateOptions(section_name, options, section_data, path, j, kwargs) ==
  IF j > Len(options) THEN Return(kwargs)
  ELSE LET option == options[j]
           field_name == <<section_name, ".", option.name>>
           raw_value == DictGet(section_data, option.name, option.default)
           got == ApplyValidators(option.validators, 1, raw_value, option.default, path, field_name)
       IN IF ~got.ok THEN Raise(ConfigError(got.message, path))
          ELSE ValidateOptions(section_name, options, section_data, path, j + 1, (option.name :> got.value) @@ kwargs)

RECURSIVE ValidateSections(_, _, _, _, _)
\* the loop over the sections; built are the sections built so far
ValidateSections(data, path, i, warnings, built) ==
  IF i > Len(Schema) THEN Return(ConfigResult(built, ConfigDiagnostics(path, warnings, None)))
  ELSE LET section_name == Schema[i].name
           options == Schema[i].options
           got0 == DictGet(data.m, section_name, PyDict(<<>>))
           section_data == IF got0 = PyNone THEN PyDict(<<>>) ELSE got0
           allowed_section_keys == {options[j].name : j \in DOMAIN options}
           unknown_section_keys == sorted(DOMAIN section_data.m \ allowed_section_keys)
           warnings2 == IF Len(unknown_section_keys) > 0 THEN Append(warnings, <<"Unknown [", section_name, "] keys: ">> \o join(", ", unknown_section_keys)) ELSE warnings
           section == ValidateOptions(section_name, options, section_data.m, path, 1, <<>>)
       IN IF ~IsMapping(section_data) THEN Raise(ConfigError(<<"[", section_name, "] must be a table/object.">>, path))
          ELSE IF section.raised # None THEN section
          ELSE ValidateSections(data, path, i + 1, warnings2, (section_name :> Get(section.value)) @@ built)

\* validate_config(data, path=path)
validate_config(data, path) ==
  IF ~IsMapping(data) THEN Raise(ConfigError(<<"Config root must be a table/object.">>, path))
  ELSE LET allowed_root_keys == {Schema[i].name : i \in DOMAIN Schema}
           unknown_root_keys == sorted(DOMAIN data.m \ allowed_root_keys)
           warnings == IF Len(unknown_root_keys) > 0 THEN <<<<"Unknown top-level keys: ">> \o join(", ", unknown_root_keys)>> ELSE <<>>
       IN ValidateSections(data, path, 1, warnings, <<>>)

\* ------------------------------------------------------- paths, environment
\* A path: its directory (components), and its name as stem and suffix.
Path(dir, stem, ext) == [dir |-> dir, stem |-> stem, ext |-> ext]

\* The raw text "" of an environment variable
EmptyRaw == Path(<<>>, "", "")

\* path / name
Child(dir, stem, ext) == Path(dir, stem, ext)

\* path.parent
Parent(p) == Path(SubSeq(p.dir, 1, Len(p.dir) - 1), p.dir[Len(p.dir)], "")

\* str(path), as text fragments
PathStr(p) == p.dir \o <<p.stem \o p.ext>>

\* str.lower() on the suffixes that occur
lower(ext) == CASE ext = ".JSON" -> ".json" [] ext = ".Json" -> ".json" [] ext = ".TXT" -> ".txt" [] OTHER -> ext

\* sys.platform
sys_platform == "linux"

\* Path.home()
PathHome(env) == Get(env.HOME)

\* _user_config_dir(app_name)
user_config_dir(env, app_name) ==
  CASE sys_platform = "win32" ->
         IF env.APPDATA # None THEN Append(Get(env.APPDATA), app_name)
         ELSE IF env.LOCALAPPDATA # None THEN Append(Get(env.LOCALAPPDATA), app_name)
         ELSE PathHome(env) \o <<"AppData", "Roaming", app_name>>
    [] sys_platform = "darwin" -> PathHome(env) \o <<"Library", "Application Support", app_name>>
    [] OTHER ->
         IF env.XDG_CONFIG_HOME # None /\ Get(env.XDG_CONFIG_HOME) # <<>> THEN Append(Get(env.XDG_CONFIG_HOME), app_name)
         ELSE PathHome(env) \o <<".config", app_name>>

\* os.path.expanduser: a leading ~ becomes the home directory
expanduser(env, dir) == IF Len(dir) > 0 /\ dir[1] = "~" /\ env.HOME # None THEN Get(env.HOME) \o Tail(dir) ELSE dir

RECURSIVE expandvars(_, _)
\* os.path.expandvars: $NAME becomes the variable's value when it is set
expandvars(env, dir) ==
  IF Len(dir) = 0 THEN <<>>
  ELSE (CASE dir[1] = "$HOME" /\ env.HOME # None -> Get(env.HOME)
          [] dir[1] = "$XDG_CONFIG_HOME" /\ env.XDG_CONFIG_HOME # None -> Get(env.XDG_CONFIG_HOME)
          [] OTHER -> <<dir[1]>>) \o expandvars(env, Tail(dir))

\* _expand_path(raw)
expand_path(env, raw) == Path(expandvars(env, expanduser(env, raw.dir)), raw.stem, raw.ext)

\* _env_config_path()
env_config_path(env) ==
  LET first == env.MEDIT_CONFIG
      raw == IF first # None /\ Get(first) # EmptyRaw THEN first ELSE env.MICROEDIT_CONFIG
  IN IF raw = None \/ Get(raw) = EmptyRaw THEN None ELSE Some(expand_path(env, Get(raw)))

\* config_search_paths()
config_search_paths(env, dir) == <<Child(dir, "medit", ".json"), Child(dir, ".medit", ".json"), Child(user_config_dir(env, "medit"), "config", ".json")>>

\* default_config_path()
default_config_path(env) == Child(user_config_dir(env, "medit"), "config", ".json")

\* ------------------------------------------------------- file system
Absent == [kind |-> "absent", text |-> <<>>]
Directory == [kind |-> "dir", text |-> <<>>]
File(text) == [kind |-> "file", text |-> text]

\* Directories that exist throughout and are not written to.
FixedDirs == {Path(<<"/">>, "proj", ""), Path(<<"/">>, "work", ""), Path(<<"/">>, "alt", ""), Path(<<"/", "home", "u">>, ".config", "")}

\* path.is_file()
is_file(files, p) == p \in DOMAIN files /\ files[p].kind = "file"

\* path.is_dir()
is_dir(files, p) == IF p \in DOMAIN files THEN files[p].kind = "dir" ELSE p \in FixedDirs

\* path.exists()
exists(files, p) == IF p \in DOMAIN files THEN files[p].kind # "absent" ELSE p \in FixedDirs

\* write_default_config without the mkdir of the parent directory
write_default_config_no_mkdir(files, w, path) ==
  IF ~is_dir(files, Parent(path)) THEN [raised |-> Some(OSError("No such file or directory")), fs |-> files, written |-> {}]
  ELSE IF is_dir(files, path) THEN [raised |-> Some(OSError("Is a directory")), fs |-> files, written |-> {}]
  ELSE IF ~w \/ path \notin DOMAIN files THEN [raised |-> Some(OSError("Permission denied")), fs |-> files, written |-> {}]
  ELSE [raised |-> None, fs |-> [files EXCEPT ![path] = File(default_config_text)], written |-> {path}]

\* write_default_config(path): mkdir of the parent, then write_text
write_default_config(files, w, path) ==
  LET parent == Parent(path)
      canMake == w /\ parent \in DOMAIN files /\ is_dir(files, Parent(parent))
      made == IF exists(files, parent) \/ ~canMake THEN files ELSE [files EXCEPT ![parent] = Directory]
  IN IF exists(files, parent) /\ ~is_dir(files, parent) THEN [raised |-> Some(OSError("File exists")), fs |-> files, written |-> {}]
     ELSE IF ~exists(files, parent) /\ ~canMake THEN [raised |-> Some(OSError("Permission denied")), fs |-> files, written |-> {}]
     ELSE IF is_dir(made, path) THEN [raised |-> Some(OSError("Is a directory")), fs |-> made, written |-> {}]
     ELSE IF ~w \/ path \notin DOMAIN made THEN [raised |-> Some(OSError("Permission denied")), fs |-> made, written |-> {}]
     ELSE [raised |-> None, fs |-> [made EXCEPT ![path] = File(default_config_text)], written |-> {path}]

\* discover_config_path letting the last existing candidate win
discover_config_path_last(env, dir, files) ==
  LET env_path == env_config_path(env)
      paths == config_search_paths(env, dir)
      hits == SelectSeq(paths, LAMBDA p : is_file(files, p))
  IN IF env_path # None THEN env_path ELSE IF Len(hits) > 0 THEN Some(hits[Len(hits)]) ELSE None

\* discover_config_path()
discover_config_path(env, dir, files) ==
  LET env_path == env_config_path(env)
      paths == config_search_paths(env, dir)
      hits == SelectSeq(paths, LAMBDA p : is_file(files, p))
  IN IF env_path # None THEN env_path ELSE IF Len(hits) > 0 THEN Some(hits[1]) ELSE None

\* _load_json(path)
load_json(files, path) ==
  IF ~is_file(files, path) THEN Raise(OSError("No such file"))
  ELSE LET data == json_load(files[path].text)
       IN IF ~data.ok THEN Raise(JSONDecodeError)
          ELSE IF ~IsMapping(data.val) THEN Raise(ConfigError(<<"JSON config root must be an object.">>, Some(path)))
          ELSE Return(data.val)

\* _load_raw_config(path)
load_raw_config(files, path) ==
  IF lower(path.ext) # ".json" THEN Raise(ConfigError(<<"Unsupported config file type '", path.ext, "'. Use .json.">>, Some(path)))
  ELSE load_json(files, path)

\* load_config(path)
load_config(files, path) ==
  LET raw == load_raw_config(files, path)
  IN IF raw.raised # None THEN raw ELSE validate_config(Get(raw.value), Some(path))

\* ------------------------------------------------------- get_config_result
\* What one call does: the cache and files after it, its outcome, whether the
\* cached result was returned, and the files it read and wrote.
Effect(cache, files, out, hit, reads, writes) == [cache |-> cache, fs |-> files, out |-> out, hit |-> hit, reads |-> reads, writes |-> writes]

\* a fresh result cached and returned
Cached(r, files, reads, writes) == Effect(Some(r), files, Return(r), FALSE, reads, writes)

\* ErrorResult reporting the error among the warnings too
ErrorResult_with_warning(path, message) == ConfigResult(MeditConfig, ConfigDiagnostics(path, <<message>>, Some(message)))

\* the result cached when loading fails or nothing can be loaded
ErrorResult(path, message) == ConfigResult(MeditConfig, ConfigDiagnostics(path, <<>>, Some(message)))

\* get_config_result(), the try around load_config(config_path): `loaded` is
\* load_config's outcome on the files as they are now, `written` what was written
LoadAndCache(files, config_path, loaded, written) ==
  LET reads == IF lower(config_path.ext) = ".json" THEN {config_path} ELSE {}
      exc == Get(loaded.raised)
  IN IF loaded.raised = None THEN Cached(Get(loaded.value), files, reads, written)
     ELSE IF exc.type = "ConfigError" THEN Cached(ErrorResult(IF exc.path # None THEN exc.path ELSE Some(config_path), exc.message), files, reads, written)
     ELSE Effect(None, files, Raise(exc), FALSE, reads, written)

\* get_config_result(), after write_default_config(default_path) ended as `wrote`
AfterWrite(wrote, default_path) ==
  IF wrote.raised # None THEN Cached(ErrorResult(Some(default_path), <<"Failed to create default config: ">> \o Get(wrote.raised).message), wrote.fs, {}, {})
  ELSE LoadAndCache(wrote.fs, default_path, load_config(wrote.fs, default_path), wrote.written)

\* AfterDiscover making sure the user config file exists even when a file was found
AfterDiscover_always_write(found, default_path, files, w) ==
  IF found = None THEN AfterWrite(write_default_config(files, w, default_path), default_path)
  ELSE LoadAndCache(write_default_config(files, w, default_path).fs, Get(found), load_config(files, Get(found)), write_default_config(files, w, default_path).written)

\* get_config_result(), after discover_config_path() returned `found`
AfterDiscover(found, default_path, files, w) ==
  IF found = None THEN AfterWrite(write_default_config(files, w, default_path), default_path)
  ELSE LoadAndCache(files, Get(found), load_config(files, Get(found)), {})

\* Resolve falling back to the search paths when the override is not a file
Resolve_fallback(env_path, env, dir, files, w) ==
  IF env_path # None /\ ~is_file(files, Get(env_path))
  THEN AfterDiscover(discover_config_path([env EXCEPT !.MEDIT_CONFIG = None, !.MICROEDIT_CONFIG = None], dir, files), default_config_path(env), files, w)
  ELSE AfterDiscover(discover_config_path(env, dir, files), default_config_path(env), files, w)

\* get_config_result(), the first call: env_path is _env_config_path()
Resolve(env_path, env, dir, files, w) ==
  IF env_path # None /\ ~is_file(files, Get(env_path))
  THEN Cached(ErrorResult(env_path, <<"Config file from $MEDIT_CONFIG not found: ">> \o PathStr(Get(env_path))), files, {}, {})
  ELSE AfterDiscover(discover_config_path(env, dir, files), default_config_path(env), files, w)

\* get_config_result resolving again when the cached result carries an error
get_config_result_retry(cached, env, dir, files, w) ==
  IF cached # None /\ Get(cached).diagnostics.error = None THEN Effect(cached, files, Return(Get(cached)), TRUE, {}, {})
  ELSE Resolve(env_config_path(env), env, dir, files, w)

\* get_config_result()
get_config_result(cached, env, dir, files, w) ==
  IF cached # None THEN Effect(cached, files, Return(Get(cached)), TRUE, {}, {})
  ELSE Resolve(env_config_path(env), env, dir, files, w)

\* ------------------------------------------------------- the surroundings
HomeDir == <<"/", "home", "u">>
ProjDirs == {<<"/", "proj">>, <<"/", "work">>}

UserDir == Path(<<"/", "home", "u", ".config">>, "medit", "")
UserFile == Path(<<"/", "home", "u", ".config", "medit">>, "config", ".json")
AltFile == Path(<<"/", "alt">>, "cfg", ".txt")

\* The paths whose state the model follows.
Nodes == {Child(d, "medit", ".json") : d \in ProjDirs} \cup {Child(d, ".medit", ".json") : d \in ProjDirs} \cup {UserDir, UserFile, AltFile}

\* Values given to MEDIT_CONFIG / MICROEDIT_CONFIG.
RawUser == Path(<<"~", ".config", "medit">>, "config", ".json")
RawAlt == Path(<<"/", "alt">>, "cfg", ".txt")
RawHomeVar == Path(<<"$HOME", ".config", "medit">>, "config", ".json")
EnvValues == [MEDIT_CONFIG |-> {None, Some(EmptyRaw), Some(RawUser), Some(RawAlt)}, MICROEDIT_CONFIG |-> {None, Some(RawHomeVar)}]

\* File contents the surroundings may write.
Object1(key, value) == <<Punct("{"), TKey(key), Punct(":")>> \o value \o <<Punct("}")>>
TxtSemi == Object1("commands", Object1("separator", <<TStr(<<";">>)>>))
TxtExtra == Object1("commands", <<Punct("{"), TKey("separator"), Punct(":"), TStr(<<"|">>), Punct(","), TKey("extra"), Punct(":"), TNum(<<"1">>), Punct("}")>>)
TxtEmptySep == Object1("commands", Object1("separator", <<TStr(<<>>)>>))
TxtBadSection == <<Punct("{"), TKey("alpha"), Punct(":"), TNum(<<"1">>), Punct(","), TKey("commands"), Punct(":"), TNum(<<"5">>), Punct("}")>>
TxtList == <<Punct("["), Punct("]"), TWs(<<"\n">>)>>
TxtTruncated == <<Punct("{"), TKey("commands"), Punct(":")>>
Texts == {TxtSemi, TxtExtra, TxtEmptySep, TxtBadSection, TxtList, TxtTruncated}

\* ------------------------------------------------------- state machine
\* The last call made: its name and outcome (history, for the properties).
Call(op, raised, value, config, hit, reads, writes) == [op |-> op, raised |-> raised, value |-> value, config |-> config, hit |-> hit, reads |-> reads, writes |-> writes]
NoCall(op) == Call(op, None, None, None, FALSE, {}, {})

Init ==
  /\ environ = [MEDIT_CONFIG |-> None, MICROEDIT_CONFIG |-> None, HOME |-> Some(HomeDir), XDG_CONFIG_HOME |-> None, APPDATA |-> None, LOCALAPPDATA |-> None]
  /\ cwd = <<"/", "proj">>
  /\ fs = [p \in Nodes |-> Absent]
  /\ writable \in BOOLEAN
  /\ CACHED_RESULT = None
  /\ last = NoCall("start")
  /\ envOps = 0
  /\ vdata = PyNone
  /\ vpath = None

\* A call of get_config_result() with effect e; `op` names the entry point.
Calls(op, e) ==
  /\ CACHED_RESULT' = e.cache
  /\ fs' = e.fs
  /\ last' = Call(op, e.out.raised, IF op = "get_config_result" THEN e.out.value ELSE None, IF op = "get_config" /\ e.out.raised = None THEN Some(Get(e.out.value).config) ELSE None, e.hit, e.reads, e.writes)
  /\ UNCHANGED <<environ, cwd, writable, envOps, vdata, vpath>>

\* get_config_result() called by the host
GetConfigResult == Calls("get_config_result", get_config_result(CACHED_RESULT, environ, cwd, fs, writable))

\* get_config() called by the host: get_config_result().config
GetConfig == Calls("get_config", get_config_result(CACHED_RESULT, environ, cwd, fs, writable))

\* clear_config_cache()
ClearConfigCache ==
  /\ CACHED_RESULT' = None
  /\ last' = NoCall("clear_config_cache")
  /\ UNCHANGED <<environ, cwd, fs, writable, envOps, vdata, vpath>>

\* The surroundings change: every such step counts against MaxEnvOps.
Surroundings ==
  /\ envOps < MaxEnvOps
  /\ envOps' = envOps + 1
  /\ last' = NoCall("surroundings")
  /\ UNCHANGED <<CACHED_RESULT, vdata, vpath>>

\* os.environ[name] = value, or its removal
SetEnv(name, value) ==
  /\ Surroundings
  /\ environ[name] # value
  /\ environ' = [environ EXCEPT ![name] = value]
  /\ UNCHANGED <<cwd, fs, writable>>

\* os.chdir(dir)
Chdir(dir) ==
  /\ Surroundings
  /\ cwd # dir
  /\ cwd' = dir
  /\ UNCHANGED <<environ, fs, writable>>

\* some process writes a file
WriteFile(p, text) ==
  /\ Surroundings
  /\ is_dir(fs, Parent(p))
  /\ ~is_dir(fs, p)
  /\ fs[p] # File(text)
  /\ \A q \in Nodes : Parent(q) # p
  /\ fs' = [fs EXCEPT ![p] = File(text)]
  /\ UNCHANGED <<environ, cwd, writable>>

\* some process makes a directory
MkDir(p) ==
  /\ Surroundings
  /\ is_dir(fs, Parent(p))
  /\ ~exists(fs, p)
  /\ fs' = [fs EXCEPT ![p] = Directory]
  /\ UNCHANGED <<environ, cwd, writable>>

\* some process removes a file or an empty directory
Remove(p) ==
  /\ Surroundings
  /\ exists(fs, p)
  /\ \A q \in Nodes : Parent(q) = p => ~exists(fs, q)
  /\ fs' = [fs EXCEPT ![p] = Absent]
  /\ UNCHANGED <<environ, cwd, writable>>

\* the user config tree becomes read-only, or writable again
Chmod ==
  /\ Surroundings
  /\ writable' = ~writable
  /\ UNCHANGED <<environ, cwd, fs>>

Next ==
  \/ GetConfigResult
  \/ GetConfig
  \/ ClearConfigCache
  \/ \E name \in DOMAIN EnvValues : \E value \in EnvValues[name] : SetEnv(name, value)
  \/ \E dir \in ProjDirs : Chdir(dir)
  \/ \E p \in Nodes : \E text \in Texts : WriteFile(p, text)
  \/ \E p \in Nodes : MkDir(p)
  \/ \E p \in Nodes : Remove(p)
  \/ Chmod

Spec == Init /\ [][Next]_vars

\* ------------------------------------------------------- validate_config alone
\* Values an option is given.
OptionValues == {PyNone, PyStr(<<";">>), PyStr(<<>>), PyStr(<<" ">>), PyStr(<<"a", "\n">>), PyInt(<<"1">>), PyTrue, PyList(<<>>), PyDict(<<>>)}

\* A dict with the keys `keys`, each unknown key holding a number.
WithKeys(keys, known, value) == PyDict([key \in keys |-> IF key = known THEN value ELSE PyInt(<<"1">>)])

\* Values a section is given: null, a number, or a dict of known and unknown keys.
SectionValues == {PyNone, PyInt(<<"5">>)} \cup {WithKeys(keys, "separator", value) : keys \in SUBSET {"separator", "extra", "Beta"}, value \in OptionValues}

\* The data validate_config is called with.
ValidateInputs == {PyNone, PyList(<<>>), PyStr(<<"x">>)} \cup {WithKeys(keys, "commands", value) : keys \in SUBSET {"commands", "alpha", "Beta"}, value \in SectionValues}

\* The result cached once the default config was written and loaded.
DefaultLoaded == ConfigResult(MeditConfig, ConfigDiagnostics(Some(UserFile), <<>>, None))

InitV ==
  /\ environ = [MEDIT_CONFIG |-> None, MICROEDIT_CONFIG |-> None, HOME |-> Some(HomeDir), XDG_CONFIG_HOME |-> None, APPDATA |-> None, LOCALAPPDATA |-> None]
  /\ cwd = <<"/", "proj">>
  /\ CACHED_RESULT \in {None, Some(DefaultLoaded)}
  /\ fs = [p \in Nodes |-> IF CACHED_RESULT = None THEN Absent ELSE IF p = UserDir THEN Directory ELSE IF p = UserFile THEN File(default_config_text) ELSE Absent]
  /\ writable = TRUE
  /\ last = NoCall("start")
  /\ envOps = 0
  /\ vdata \in ValidateInputs
  /\ vpath \in {None, Some(Child(cwd, "medit", ".json"))}

\* validate_config(vdata, path=vpath) called directly
ValidateConfig ==
  LET out == validate_config(vdata, vpath)
  IN /\ last.op = "start"
     /\ last' = Call("validate_config", out.raised, out.value, None, FALSE, {}, {})
     /\ UNCHANGED <<environ, cwd, fs, writable, CACHED_RESULT, envOps, vdata, vpath>>

NextV == ValidateConfig

SpecV == InitV /\ [][NextV]_vars

\* ======================================================= properties
\* What the properties expect, written out independently of the operators above.

\* The pure default config: commands.separator is ","
PureDefault == ("commands" :> ("separator" :> PyStr(<<",">>)))

\* The default config file as documented: 2-space indent, sorted keys, final newline
DocumentedDefaultText == <<Punct("{"), TWs(<<"\n", " ", " ">>), TKey("commands"), Punct(":"), TWs(<<" ">>), Punct("{"), TWs(<<"\n", " ", " ", " ", " ">>), TKey("separator"), Punct(":"), TWs(<<" ">>), TStr(<<",">>), TWs(<<"\n", " ", " ">>), Punct("}"), TWs(<<"\n">>), Punct("}"), TWs(<<"\n">>)>>

\* The file an override value names
Target(raw) == IF raw \in {RawUser, RawHomeVar} THEN UserFile ELSE raw

IsSet(value) == value # None /\ value # Some(EmptyRaw)

\* The override path in force: MEDIT_CONFIG if non-empty, else MICROEDIT_CONFIG
Override == IF IsSet(environ.MEDIT_CONFIG) THEN Some(Target(environ.MEDIT_CONFIG[1])) ELSE IF IsSet(environ.MICROEDIT_CONFIG) THEN Some(Target(environ.MICROEDIT_CONFIG[1])) ELSE None

RegularFile(p) == p \in Nodes /\ fs[p].kind = "file"

ProjectFile == Path(cwd, "medit", ".json")
HiddenProjectFile == Path(cwd, ".medit", ".json")

\* The first candidate that is a regular file, if any
FirstCandidate == IF RegularFile(ProjectFile) THEN Some(ProjectFile) ELSE IF RegularFile(HiddenProjectFile) THEN Some(HiddenProjectFile) ELSE IF RegularFile(UserFile) THEN Some(UserFile) ELSE None

\* What loading each file content is expected to give: separator, number of
\* warnings, whether an error is reported
Expect(sep, warnings, error) == [sep |-> sep, warnings |-> warnings, error |-> error]
ExpectedOf(text) ==
  CASE text = TxtSemi -> Expect(<<";">>, 0, FALSE)
    [] text = TxtExtra -> Expect(<<"|">>, 1, FALSE)
    [] text = DocumentedDefaultText -> Expect(<<",">>, 0, FALSE)
    [] OTHER -> Expect(<<",">>, 0, TRUE)

Summary(r) == Expect(r.config["commands"]["separator"].s, Len(r.diagnostics.warnings), r.diagnostics.error # None)

\* msg contains the fragments part, in a row
Mentions(msg, part) == \E i \in 1..Len(msg) : i + Len(part) - 1 <= Len(msg) /\ SubSeq(msg, i, i + Len(part) - 1) = part

LastIsGet == last.op \in {"get_config_result", "get_config"}

\* This step is a call of get_config_result() or get_config()
GetStep == last'.op \in {"get_config_result", "get_config"}

\* This step is such a call, made with an empty cache
FreshGetStep == GetStep /\ CACHED_RESULT = None

\* What the call of this step returned is the result r
Returned(r) == /\ last'.raised = None
               /\ last'.op = "get_config_result" => last'.value = Some(r)
               /\ last'.op = "get_config" => last'.config = Some(r.config)

\* ------------------------------------------------------- C1
\* C1: get_config_result() and get_config() return normally, whatever the
\* environment and the files hold: no exception escapes a call.
C1_NoExceptionEscapes == LastIsGet => last.raised = None

\* ------------------------------------------------------- C2
\* C2: a call made with an empty cache reads exactly one file. Without an
\* override it is the first of ./medit.json, ./.medit.json, <user>/config.json
\* that is a regular file, and the result (path, config, warnings, error) is
\* what that file alone gives, whatever the lower-priority files hold. With an
\* override naming a regular file, that file is the one used.
C2_Chosen(p) ==
  /\ last'.reads \subseteq {p}
  /\ lower(p.ext) = ".json" => last'.reads = {p}
  /\ last'.raised = None =>
       /\ CACHED_RESULT' # None
       /\ Returned(CACHED_RESULT'[1])
       /\ CACHED_RESULT'[1].diagnostics.path = Some(p)
       /\ p.ext = ".json" => Summary(CACHED_RESULT'[1]) = ExpectedOf(fs[p].text)
       /\ p.ext # ".json" => Summary(CACHED_RESULT'[1]) = Expect(<<",">>, 0, TRUE)

C2_FirstFileWins == [][FreshGetStep => /\ (Override = None /\ FirstCandidate # None) => C2_Chosen(FirstCandidate[1])
                                       /\ (Override # None /\ RegularFile(Override[1])) => C2_Chosen(Override[1])]_vars

\* Two candidates hold different configs and the call just made used the first.
C2_Witness ==
  /\ last.op = "get_config_result" /\ ~last.hit /\ last.raised = None
  /\ Override = None
  /\ RegularFile(ProjectFile) /\ RegularFile(HiddenProjectFile)
  /\ fs[ProjectFile].text = TxtSemi /\ fs[HiddenProjectFile].text = TxtExtra
  /\ last.reads = {ProjectFile}
  /\ Summary(last.value[1]) = Expect(<<";">>, 0, FALSE)

\* ------------------------------------------------------- C3
\* C3: with an override set whose path is not a regular file, the call returns
\* the default config with an error that mentions the path and the path as
\* diagnostics.path; no file is read, none is written, nothing on disk changes.
C3_MissingOverride == [][(FreshGetStep /\ Override # None /\ ~RegularFile(Override[1])) =>
                           /\ CACHED_RESULT' # None
                           /\ Returned(CACHED_RESULT'[1])
                           /\ CACHED_RESULT'[1].config = PureDefault
                           /\ CACHED_RESULT'[1].diagnostics.path = Override
                           /\ CACHED_RESULT'[1].diagnostics.warnings = <<>>
                           /\ CACHED_RESULT'[1].diagnostics.error # None
                           /\ Mentions(CACHED_RESULT'[1].diagnostics.error[1], PathStr(Override[1]))
                           /\ last'.reads = {} /\ last'.writes = {}
                           /\ fs' = fs]_vars

\* The override names a missing file while a project file exists.
C3_Witness ==
  /\ last.op = "get_config_result" /\ ~last.hit
  /\ Override # None /\ ~RegularFile(Override[1])
  /\ RegularFile(ProjectFile) /\ fs[ProjectFile].text = TxtSemi
  /\ last.value[1].diagnostics.error # None

\* ------------------------------------------------------- C4
\* The default config file can be written: the user config tree is writable,
\* its directory is there or can be made, and no directory is in the file's place.
CanWriteDefault == writable /\ fs[UserDir].kind # "file" /\ fs[UserFile].kind = "absent"

\* C4: with no override and no candidate a regular file, the call writes the
\* default config to <user>/config.json. When the write succeeds the result is
\* the loaded file: that path, the default config, no warnings, no error. When
\* it fails no exception escapes: the default config, a non-empty error, that path.
C4_DefaultCreated == [][(FreshGetStep /\ Override = None /\ FirstCandidate = None) =>
                          /\ CACHED_RESULT' # None
                          /\ Returned(CACHED_RESULT'[1])
                          /\ CACHED_RESULT'[1].config = PureDefault
                          /\ CACHED_RESULT'[1].diagnostics.path = Some(UserFile)
                          /\ CACHED_RESULT'[1].diagnostics.warnings = <<>>
                          /\ CanWriteDefault => /\ fs'[UserFile] = File(DocumentedDefaultText)
                                                /\ fs'[UserDir] = Directory
                                                /\ last'.writes = {UserFile} /\ last'.reads = {UserFile}
                                                /\ CACHED_RESULT'[1].diagnostics.error = None
                          /\ ~CanWriteDefault => /\ fs'[UserFile] = fs[UserFile]
                                                 /\ last'.writes = {} /\ last'.reads = {}
                                                 /\ CACHED_RESULT'[1].diagnostics.error # None
                                                 /\ CACHED_RESULT'[1].diagnostics.error[1] # <<>>]_vars

\* Nothing to load and the user config tree read-only: defaults with an error.
C4_Witness ==
  /\ last.op = "get_config" /\ ~last.hit /\ last.raised = None
  /\ Override = None /\ FirstCandidate = None /\ ~writable
  /\ last.config = Some(PureDefault)
  /\ CACHED_RESULT # None /\ CACHED_RESULT[1].diagnostics.error # None
  /\ CACHED_RESULT[1].diagnostics.path = Some(UserFile)

\* ------------------------------------------------------- C5
\* The path a fresh resolution reports
ExpectedPath == IF Override # None THEN Override ELSE IF FirstCandidate # None THEN FirstCandidate ELSE Some(UserFile)

\* C5: once a result is cached every call returns it unchanged, whatever
\* happened to the environment, the working directory and the files, until
\* clear_config_cache(); a call made with the cache empty resolves from the
\* environment and files as they are then.
C5_CachedUntilCleared == [][/\ (GetStep /\ CACHED_RESULT # None) => (CACHED_RESULT' = CACHED_RESULT /\ Returned(CACHED_RESULT[1]) /\ last'.hit /\ fs' = fs)
                            /\ last'.op = "surroundings" => CACHED_RESULT' = CACHED_RESULT
                            /\ last'.op = "clear_config_cache" => CACHED_RESULT' = None
                            /\ FreshGetStep => ~last'.hit
                            /\ (FreshGetStep /\ last'.raised = None) => (CACHED_RESULT' # None /\ Returned(CACHED_RESULT'[1]) /\ CACHED_RESULT'[1].diagnostics.path = ExpectedPath)]_vars

\* The cached result of a file since removed is returned again.
C5_Witness ==
  /\ last.op = "get_config_result" /\ last.hit
  /\ last.value = CACHED_RESULT
  /\ CACHED_RESULT[1].diagnostics.path = Some(ProjectFile)
  /\ Summary(CACHED_RESULT[1]) = Expect(<<";">>, 0, FALSE)
  /\ ~RegularFile(ProjectFile)

\* ------------------------------------------------------- C6
\* C6: every result cached or returned: with an error set, the config is the
\* pure default and there are no warnings; with no error, the result was built
\* from a regular file read in the call that cached it.
C6_ErrorMeansDefault == [][CACHED_RESULT' # None =>
                             /\ CACHED_RESULT'[1].diagnostics.error # None => (CACHED_RESULT'[1].config = PureDefault /\ CACHED_RESULT'[1].diagnostics.warnings = <<>>)
                             /\ CACHED_RESULT # None => CACHED_RESULT' = CACHED_RESULT
                             /\ GetStep => Returned(CACHED_RESULT'[1])
                             /\ (CACHED_RESULT = None /\ CACHED_RESULT'[1].diagnostics.error = None) =>
                                  \E p \in Nodes : /\ last'.reads = {p}
                                                   /\ CACHED_RESULT'[1].diagnostics.path = Some(p)
                                                   /\ fs'[p].kind = "file"
                                                   /\ Summary(CACHED_RESULT'[1]) = ExpectedOf(fs'[p].text)]_vars

\* A file with an unknown key and a broken section: the error, and no warning.
C6_Witness ==
  /\ last.op = "get_config_result" /\ ~last.hit
  /\ RegularFile(ProjectFile) /\ fs[ProjectFile].text = TxtBadSection
  /\ Override = None
  /\ CACHED_RESULT # None /\ CACHED_RESULT[1].diagnostics.error # None
  /\ CACHED_RESULT[1].diagnostics.warnings = <<>>

\* ------------------------------------------------------- C10
\* C10: a call writes at most <user>/config.json, never over a regular file,
\* and only when the cache is empty, no override is set and no candidate is a
\* regular file; in every other case it leaves the file system as it is.
C10_WritesOnlyDefault == [][GetStep =>
                              /\ last'.writes \subseteq {UserFile}
                              /\ \A p \in last'.writes : ~RegularFile(p)
                              /\ (CACHED_RESULT # None \/ Override # None \/ FirstCandidate # None) => (fs' = fs /\ last'.writes = {})
                              /\ \A p \in Nodes : fs'[p] # fs[p] => p \in {UserFile, UserDir}
                              /\ fs'[UserFile] # fs[UserFile] => (last'.writes = {UserFile} /\ fs'[UserFile] = File(DocumentedDefaultText))]_vars

\* The default config file was just written.
C10_Witness ==
  /\ LastIsGet /\ last.writes = {UserFile}
  /\ fs[UserFile] = File(DocumentedDefaultText)
  /\ Override = None

\* ------------------------------------------------------- validate_config: expectations
LastIsValidate == last.op = "validate_config"

\* The value given for the section commands (absent counts as null)
SectionOf(data) == IF "commands" \in DOMAIN data.m THEN data.m["commands"] ELSE PyNone

\* The value given for commands.separator (absent counts as null)
SeparatorOf(data) == IF SectionOf(data).k = "dict" /\ "separator" \in DOMAIN SectionOf(data).m THEN SectionOf(data).m["separator"] ELSE PyNone

UnknownRootKeys(data) == DOMAIN data.m \ {"commands"}
UnknownSectionKeys(data) == IF SectionOf(data).k = "dict" THEN DOMAIN SectionOf(data).m \ {"separator"} ELSE {}

\* commands.separator is given a value that is no string
WrongKind(data) == data.k = "dict" /\ SectionOf(data).k = "dict" /\ SeparatorOf(data).k \notin {"str", "null"}

\* The schema's sections and options, where given, are well-formed: the
\* section an object or null, the separator null or a non-empty string
\* without a newline.
KnownPartValid(data) ==
  /\ data.k = "dict"
  /\ SectionOf(data).k \in {"dict", "null"}
  /\ \/ SeparatorOf(data).k = "null"
     \/ /\ SeparatorOf(data).k = "str"
        /\ SeparatorOf(data).s # <<>>
        /\ \A i \in 1..Len(SeparatorOf(data).s) : SeparatorOf(data).s[i] \notin {"\n", "\r"}

\* Only recognized keys, each value of the right kind (or null)
OnlyRecognizedRightKind(data) ==
  /\ data.k = "dict"
  /\ UnknownRootKeys(data) = {} /\ UnknownSectionKeys(data) = {}
  /\ SectionOf(data).k \in {"dict", "null"}
  /\ SeparatorOf(data).k \in {"str", "null"}

\* The unknown keys as the warning lists them: in code-point order, comma-joined
Listed(keys) ==
  LET inOrder == SelectSeq(<<"Beta", "alpha", "extra">>, LAMBDA key : key \in keys)
  IN CASE Len(inOrder) = 1 -> <<inOrder[1]>>
       [] Len(inOrder) = 2 -> <<inOrder[1], ", ", inOrder[2]>>
       [] OTHER -> <<inOrder[1], ", ", inOrder[2], ", ", inOrder[3]>>

ExpectedWarnings(data) ==
  (IF UnknownRootKeys(data) # {} THEN << <<"Unknown top-level keys: ">> \o Listed(UnknownRootKeys(data)) >> ELSE <<>>)
  \o (IF UnknownSectionKeys(data) # {} THEN << <<"Unknown [", "commands", "] keys: ">> \o Listed(UnknownSectionKeys(data)) >> ELSE <<>>)

\* The defaults merged with what the data supplies
ExpectedConfig(data) == ("commands" :> ("separator" :> (IF SeparatorOf(data).k = "str" THEN SeparatorOf(data) ELSE PyStr(<<",">>))))

\* validate_config returned this config and these warnings, with no error
ValidatedAs(config, warnings) ==
  /\ last.raised = None /\ last.value # None
  /\ last.value[1].config = config
  /\ last.value[1].diagnostics = [path |-> vpath, warnings |-> warnings, error |-> None]

\* ------------------------------------------------------- C7
\* C7 (as claimed): a value of the wrong kind for an option makes
\* validate_config fail with a config error tagged with the dotted
\* section.option name that carries the source path; no Config is built.
C7_TaggedWithFieldName ==
  (LastIsValidate /\ WrongKind(vdata)) =>
    /\ last.raised # None /\ last.value = None
    /\ last.raised[1].type = "ConfigError"
    /\ last.raised[1].path = vpath
    /\ Mentions(last.raised[1].message, <<"commands", ".", "separator">>)

\* C7 (amended): a value of the wrong kind for commands.separator makes
\* validate_config fail with a config error whose message names the option by
\* its display label, "Command separator must be a string.", and that carries
\* the source path; no Config is built and the cache is left as it was.
C7_NamesDisplayLabel == [][(last'.op = "validate_config" /\ WrongKind(vdata)) =>
                             /\ last'.raised # None /\ last'.value = None
                             /\ last'.raised[1].type = "ConfigError"
                             /\ last'.raised[1].path = vpath
                             /\ last'.raised[1].message = <<"Command separator", " must be a string.">>
                             /\ CACHED_RESULT' = CACHED_RESULT]_vars

\* A number given as separator, with a result cached and a source path.
C7_Witness ==
  /\ LastIsValidate /\ last.raised # None
  /\ SeparatorOf(vdata) = PyInt(<<"1">>)
  /\ CACHED_RESULT = Some(DefaultLoaded) /\ vpath # None

\* ------------------------------------------------------- C8
HasUnknownKeys(data) == data.k = "dict" /\ (UnknownRootKeys(data) # {} \/ UnknownSectionKeys(data) # {})

\* C8 (as claimed): every mapping with unknown keys validates, with one
\* warning per level listing exactly that level's unknown keys, sorted and
\* comma-joined, root first; the config is what the known keys give.
C8_UnknownKeysAlwaysSucceed == (LastIsValidate /\ HasUnknownKeys(vdata)) => ValidatedAs(ExpectedConfig(vdata), ExpectedWarnings(vdata))

\* C8 (amended): the same, for every mapping with unknown keys whose known
\* sections and options are valid.
C8_UnknownKeysWarn == (LastIsValidate /\ HasUnknownKeys(vdata) /\ KnownPartValid(vdata)) => ValidatedAs(ExpectedConfig(vdata), ExpectedWarnings(vdata))

\* Two unknown keys at the root and two in the section, and a separator given.
C8_Witness ==
  /\ LastIsValidate /\ last.raised = None
  /\ UnknownRootKeys(vdata) = {"alpha", "Beta"} /\ UnknownSectionKeys(vdata) = {"extra", "Beta"}
  /\ SeparatorOf(vdata) = PyStr(<<";">>)
  /\ last.value[1].diagnostics.warnings = << <<"Unknown top-level keys: ", "Beta", ", ", "alpha">>, <<"Unknown [", "commands", "] keys: ", "Beta", ", ", "extra">> >>

\* ------------------------------------------------------- C9
\* C9 (as claimed): a mapping of recognized keys whose values are of the right
\* kind validates without warnings or error to the defaults merged with it.
C9_RightKindAlwaysValid == (LastIsValidate /\ OnlyRecognizedRightKind(vdata)) => ValidatedAs(ExpectedConfig(vdata), <<>>)

\* C9 (amended): the same, for values that also meet the option's constraints
\* (the separator not empty and without a newline).
C9_ValidMerge == (LastIsValidate /\ OnlyRecognizedRightKind(vdata) /\ KnownPartValid(vdata)) => ValidatedAs(ExpectedConfig(vdata), <<>>)

\* A separator of one blank is kept as given.
C9_Witness ==
  /\ LastIsValidate /\ last.raised = None
  /\ OnlyRecognizedRightKind(vdata)
  /\ SeparatorOf(vdata) = PyStr(<<" ">>)
  /\ last.value[1].config = ("commands" :> ("separator" :> PyStr(<<" ">>)))

====
